---- MODULE Spec2Model ----
(***************************************************************************)
(* codex-router: the profile store (account-store.ts), the credential-file *)
(* store (codex-auth.ts), the token refresher (token-refresh.ts) and the   *)
(* CLI commands (index.ts), modelled over an abstract file system.         *)
(*                                                                         *)
(* Conventions.                                                            *)
(*  - A string whose characters matter (a profile name, a file name, a     *)
(*    token) is a sequence; a character is its code point (97 = "a").      *)
(*  - A JS object is a function from its keys to its values; an optional   *)
(*    field that is missing is a key outside DOMAIN.                       *)
(*  - A file's text is a sequence of JSON lexemes (Lex... below).          *)
(*  - A file is [exists, data, mode]; NoFile is the absent file.           *)
(***************************************************************************)
EXTENDS Integers, Sequences, FiniteSets, TLC

VARIABLES
    now,       \* the clock: new Date() / Date.now(), in model time units
    codexDir,  \* ~/.codex: "absent" or "dir"
    cfs,       \* the files of ~/.codex, by path
    acctDir,   \* whether ~/.codex-router/accounts exists
    afs,       \* the files of ~/.codex-router/accounts, by path
    last,      \* the outcome of the last completed operation
    io,        \* the I/O calls the operation in `last` made, in order
    writer,    \* a writeCodexAuth call in progress, one I/O call per step
    reader,    \* what a concurrent reader of auth.json saw during that call
    input      \* the argument of a pure function under check

vars == <<now, codexDir, cfs, acctDir, afs, last, io, writer, reader, input>>

(***************************************************************************)
(* Bounds of the model.                                                    *)
(***************************************************************************)
MaxNameLen == 3
MaxNow == 2

(***************************************************************************)
(* Program constants.                                                      *)
(***************************************************************************)
PRIVATE_CREDENTIAL_FILE_MODE == 384
EXPIRY_GRACE_SECONDS == 60

Range(s) == {s[i] : i \in DOMAIN s}

SeqsUpTo(S, n) == UNION {[1..k -> S] : k \in 0..n}

(***************************************************************************)
(* Characters.  "-" 45, "." 46, "/" 47, "0".."9" 48..57, "A".."Z" 65..90,  *)
(* "_" 95, "a".."z" 97..122.                                               *)
(***************************************************************************)
Letters == (65..90) \cup (97..122)
Digits == 48..57

\* The characters names are drawn from: each class of NAME_PATTERN with its
\* first and last member, the neighbours of the ranges, and " " 32, "." 46,
\* "/" 47, ":" 58, "[" 91, "`" 96.
Alphabet == {32, 45, 46, 47, 48, 57, 58, 65, 90, 91, 95, 96, 97, 122}

(***************************************************************************)
(* validateAccountName                                                     *)
(***************************************************************************)
\* The character class [a-zA-Z0-9_-] of NAME_PATTERN.
InNameClass(c) ==
    \/ (97 <= c /\ c <= 122)
    \/ (65 <= c /\ c <= 90)
    \/ (48 <= c /\ c <= 57)
    \/ c = 95
    \/ c = 45

RECURSIVE AllInClass(_, _)
AllInClass(s, i) ==
    IF i > Len(s) THEN TRUE
    ELSE IF InNameClass(s[i]) THEN AllInClass(s, i + 1)
    ELSE FALSE

\* NAME_PATTERN.test(name): ^ one or more class characters $.
NamePatternTest(name) == Len(name) >= 1 /\ AllInClass(name, 1)

\* A plausible slip: the pattern without its anchors, which accepts any
\* name holding one class character.
ValidateUnanchored(name) ==
    IF Len(name) = 0 THEN "InvalidName: empty"
    ELSE IF ~(\E i \in DOMAIN name : InNameClass(name[i])) THEN "InvalidName: characters"
    ELSE "ok"

\* validateAccountName(name): "ok", or the error it throws.
validateAccountName(name) ==
    IF Len(name) = 0 THEN "InvalidName: empty"
    ELSE IF ~NamePatternTest(name) THEN "InvalidName: characters"
    ELSE "ok"

IsInvalidName(r) == r \in {"InvalidName: empty", "InvalidName: characters"}

(***************************************************************************)
(* Paths under the profile directory.  join(accountsDir(), rel) normalises *)
(* rel: a path is [up, segs], the ".." segments that climbed out of the    *)
(* profile directory and the segments that remain below it.                *)
(***************************************************************************)
JsonExt == <<46, 106, 115, 111, 110>>

RECURSIVE SplitOn(_, _, _, _)
\* s.split(sep), from position i with the segment `cur` under construction.
SplitOn(s, sep, i, cur) ==
    IF i > Len(s) THEN <<cur>>
    ELSE IF s[i] = sep THEN <<cur>> \o SplitOn(s, sep, i + 1, << >>)
    ELSE SplitOn(s, sep, i + 1, Append(cur, s[i]))

Split(s, sep) == SplitOn(s, sep, 1, << >>)

RECURSIVE Normalize(_, _, _)
Normalize(segs, i, acc) ==
    IF i > Len(segs) THEN acc
    ELSE IF segs[i] = << >> \/ segs[i] = <<46>> THEN Normalize(segs, i + 1, acc)
    ELSE IF segs[i] = <<46, 46>> THEN
        IF Len(acc.segs) > 0
        THEN Normalize(segs, i + 1, [acc EXCEPT !.segs = SubSeq(acc.segs, 1, Len(acc.segs) - 1)])
        ELSE Normalize(segs, i + 1, [acc EXCEPT !.up = acc.up + 1])
    ELSE Normalize(segs, i + 1, [acc EXCEPT !.segs = Append(acc.segs, segs[i])])

\* join(accountsDir(), rel)
JoinAccountsDir(rel) == Normalize(Split(rel, 47), 1, [up |-> 0, segs |-> << >>])

\* accountPath(name) = join(accountsDir(), `${name}.json`)
accountPath(name) == JoinAccountsDir(name \o JsonExt)

\* file.endsWith(".json")
EndsWithJson(f) ==
    /\ Len(f) >= Len(JsonExt)
    /\ SubSeq(f, Len(f) - Len(JsonExt) + 1, Len(f)) = JsonExt

(***************************************************************************)
(* JSON.  A text is a sequence of lexemes: "{", "}", a key with its colon, *)
(* an atomic value, or text that is no JSON at all.  Every atomic value is *)
(* a string (a sequence of code points).  Texts in this model are object   *)
(* texts, their truncations, and junk.                                     *)
(***************************************************************************)
LexOpen == [t |-> "{", k |-> "", v |-> << >>]
LexClose == [t |-> "}", k |-> "", v |-> << >>]
LexKey(k) == [t |-> "key", k |-> k, v |-> << >>]
LexVal(v) == [t |-> "val", k |-> "", v |-> v]
LexJunk == [t |-> "junk", k |-> "", v |-> << >>]

EmptyObj == << >>

Has(o, k) == k \in DOMAIN o

Put(o, k, v) == [x \in (DOMAIN o) \cup {k} |-> IF x = k THEN v ELSE o[x]]

\* The order in which the program's object literals list their keys
\* (types.ts; saveAccount's metadata literal), and the keys that hold objects.
KeyOrder ==
    <<"name", "savedAt", "auth", "tokens", "access_token", "refresh_token",
      "id_token", "account_id", "last_refresh", "auth_mode", "OPENAI_API_KEY">>

ObjectKeys == {"auth", "tokens"}

RECURSIVE StringifyMembers(_, _)
\* The members of obj from key number i on; a nested object is stringified
\* in place.  A key obj lacks (an undefined property) is left out.
StringifyMembers(obj, i) ==
    IF i > Len(KeyOrder) THEN << >>
    ELSE LET k == KeyOrder[i] IN
         (IF Has(obj, k)
          THEN <<LexKey(k)>> \o
               (IF k \in ObjectKeys
                THEN <<LexOpen>> \o StringifyMembers(obj[k], 1) \o <<LexClose>>
                ELSE <<LexVal(obj[k])>>)
          ELSE << >>)
         \o StringifyMembers(obj, i + 1)

\* JSON.stringify(obj, null, 2)
JSONStringify(obj) == <<LexOpen>> \o StringifyMembers(obj, 1) \o <<LexClose>>

ParseFail == [ok |-> FALSE, val |-> EmptyObj, next |-> 0]

RECURSIVE ParseMembers(_, _, _)
\* The members of an object whose "{" has been read, from lexeme i on:
\* [ok, val, next], next being the lexeme after the closing "}".
ParseMembers(raw, i, acc) ==
    IF i > Len(raw) THEN ParseFail
    ELSE IF raw[i].t = "}" THEN [ok |-> TRUE, val |-> acc, next |-> i + 1]
    ELSE IF raw[i].t = "key" /\ i + 1 <= Len(raw) THEN
        IF raw[i + 1].t = "val"
        THEN ParseMembers(raw, i + 2, Put(acc, raw[i].k, raw[i + 1].v))
        ELSE IF raw[i + 1].t = "{"
        THEN LET r == ParseMembers(raw, i + 2, EmptyObj) IN
             IF r.ok THEN ParseMembers(raw, r.next, Put(acc, raw[i].k, r.val))
             ELSE ParseFail
        ELSE ParseFail
    ELSE ParseFail

\* JSON.parse(raw): [ok, val]; ok = FALSE is the SyntaxError it throws.
JSONParse(raw) ==
    IF Len(raw) >= 1 /\ raw[1].t = "{"
    THEN LET r == ParseMembers(raw, 2, EmptyObj) IN
         IF r.ok /\ r.next = Len(raw) + 1
         THEN [ok |-> TRUE, val |-> r.val]
         ELSE [ok |-> FALSE, val |-> EmptyObj]
    ELSE [ok |-> FALSE, val |-> EmptyObj]

(***************************************************************************)
(* Files.                                                                  *)
(***************************************************************************)
NoFile == [exists |-> FALSE, data |-> << >>, mode |-> 0]

File(data, mode) == [exists |-> TRUE, data |-> data, mode |-> mode]

\* open(path, "w", mode): creates the file with `mode`, or truncates the
\* existing file and keeps its mode.
OpenTrunc(fs, p, mode) ==
    [fs EXCEPT ![p] = IF @.exists THEN File(<< >>, @.mode) ELSE File(<< >>, mode)]

WriteData(fs, p, data) == [fs EXCEPT ![p] = File(data, @.mode)]

\* writeFile(path, data, {mode}): open, then write.
WriteFile(fs, p, data, mode) == WriteData(OpenTrunc(fs, p, mode), p, data)

Chmod(fs, p, mode) == [fs EXCEPT ![p] = File(@.data, mode)]

Unlink(fs, p) == [fs EXCEPT ![p] = NoFile]

\* rename(from, to): `to` becomes the file `from` was, mode included.
Rename(fs, from, to) ==
    IF from = to THEN fs ELSE [fs EXCEPT ![to] = fs[from], ![from] = NoFile]

\* copyFile(from, to): `to` gets the data (and, when created, the mode) of `from`.
CopyFile(fs, from, to) ==
    [fs EXCEPT ![to] = File(fs[from].data, IF @.exists THEN @.mode ELSE fs[from].mode)]

\* A directory: an entry whose mode carries the file-type bits of a
\* directory (S_IFDIR | 0755).  Regular files carry permission bits only.
S_IFDIR == 16384

Directory == File(<< >>, S_IFDIR + 493)

IsDirectory(f) == f.exists /\ f.mode >= S_IFDIR

IsRegular(f) == f.exists /\ f.mode < S_IFDIR

(***************************************************************************)
(* Time stamps and credentials.                                            *)
(***************************************************************************)
\* new Date().toISOString() at instant t.
Iso(t) == <<t>>

\* A CodexAuthFile with the three tokens and auth_mode "chatgpt" (99).
MakeAuth(access, refresh, id, t) ==
    [tokens |-> [access_token |-> access, refresh_token |-> refresh, id_token |-> id],
     last_refresh |-> Iso(t),
     auth_mode |-> <<99>>]

\* Tokens.  A JWT is header "." payload "." signature; the payload segment
\* is one character 1000 + exp, standing for the base64url text of {"exp": exp}.
Jwt(exp) == <<104, 46, 1000 + exp, 46, 115>>

\* The tokens of the tests' makeFakeAuth: no dots.
FakeToken(n) == <<102, 48 + n>>

(***************************************************************************)
(* Credential-file store (codex-auth.ts).                                  *)
(***************************************************************************)
AuthFile == "auth.json"
AuthBackup == "auth.json.bak"

\* join(dir, `auth.json.tmp-${randomBytes(4).toString("hex")}`), for the
\* random suffixes the model draws.
TmpSuffixes == {"1", "2"}

\* A plausible slip: the new content written straight to auth.json.
TmpFileInPlace(suffix) == "auth.json"

TmpFile(suffix) == IF suffix = "1" THEN "auth.json.tmp-1" ELSE "auth.json.tmp-2"

CodexPaths == {AuthFile, AuthBackup} \cup {TmpFile(x) : x \in TmpSuffixes}

EmptyCodexFs == [p \in CodexPaths |-> NoFile]

\* A plausible slip: the backup forgotten.
BackupSkipped(fs) == fs

\* backupCodexAuth(): copyFile; ENOENT (no auth.json) is swallowed.
backupCodexAuth(fs) ==
    IF fs[AuthFile].exists THEN CopyFile(fs, AuthFile, AuthBackup) ELSE fs

\* What access(~/.codex) may meet: the directory, nothing (ENOENT), a home
\* that is no directory (ENOTDIR), a home that may not be searched (EACCES).
CodexDirStates == {"dir", "absent", "notdir", "noaccess"}

\* A plausible slip: the access check left out.
EnsureCodexDirSkipped(dir) == "ok"

\* ensureCodexDirExists(): "ok" or the error thrown.
ensureCodexDirExists(dir) ==
    IF dir \in {"absent", "notdir"} THEN "MissingCodexDir"
    ELSE IF dir = "noaccess" THEN "EACCES"
    ELSE "ok"

\* writeCodexAuth(auth) as one call, with the suffix it drew: [status, fs].
writeCodexAuth(dir, fs, auth, suffix) ==
    IF ensureCodexDirExists(dir) # "ok"
    THEN [status |-> ensureCodexDirExists(dir), fs |-> fs]
    ELSE [status |-> "ok",
          fs |-> Rename(WriteFile(backupCodexAuth(fs), TmpFile(suffix),
                                  JSONStringify(auth), PRIVATE_CREDENTIAL_FILE_MODE),
                        TmpFile(suffix), AuthFile)]

\* A plausible slip: only the tokens of the parsed file returned.
ReadCodexAuthTokensOnly(fs) ==
    IF ~fs[AuthFile].exists \/ ~JSONParse(fs[AuthFile].data).ok
    THEN [status |-> "null", val |-> EmptyObj]
    ELSE [status |-> "ok", val |-> [tokens |-> JSONParse(fs[AuthFile].data).val.tokens]]

\* readCodexAuth(): [status, val]; status "null" is the null result.
readCodexAuth(fs) ==
    IF ~fs[AuthFile].exists THEN [status |-> "null", val |-> EmptyObj]
    ELSE LET p == JSONParse(fs[AuthFile].data) IN
         IF ~p.ok THEN [status |-> "SyntaxError", val |-> EmptyObj]
         ELSE IF \/ ~Has(p.val, "tokens")
                 \/ ~Has(p.val.tokens, "access_token") \/ p.val.tokens.access_token = << >>
                 \/ ~Has(p.val.tokens, "refresh_token") \/ p.val.tokens.refresh_token = << >>
                 \/ ~Has(p.val.tokens, "id_token") \/ p.val.tokens.id_token = << >>
              THEN [status |-> "MissingTokenFields", val |-> EmptyObj]
              ELSE [status |-> "ok", val |-> p.val]

(***************************************************************************)
(* Profile store (account-store.ts).  Every operation is a function of the *)
(* directory state and its arguments: [status, val, path, dir, fs, io],    *)
(* the outcome, the value returned, the path an error names, the profile   *)
(* directory after the call, and the I/O calls made.                       *)
(***************************************************************************)
NoPath == [up |-> 0, segs |-> << >>]

Result(status, val, path, dir, fs, calls) ==
    [status |-> status, val |-> val, path |-> path, dir |-> dir, fs |-> fs, io |-> calls]

\* The value of an absent property.
Undefined == <<-1>>

Field(o, k) == IF Has(o, k) THEN o[k] ELSE Undefined

\* parseAccountMetadata(raw, filePath): JSON.parse and a cast; a SyntaxError
\* is rethrown as `Invalid account file "<filePath>"`.
parseAccountMetadata(raw, filePath) ==
    IF JSONParse(raw).ok
    THEN [status |-> "ok", val |-> JSONParse(raw).val, path |-> NoPath]
    ELSE [status |-> "MalformedProfile", val |-> EmptyObj, path |-> filePath]

\* A plausible slip: the chmod after writeFile left out.
WriteAccountFileNoChmod(fs, path, metadata) ==
    WriteFile(fs, path, JSONStringify(metadata), PRIVATE_CREDENTIAL_FILE_MODE)

\* writeAccountFile(path, metadata): writeFile, then chmod.
writeAccountFile(fs, path, metadata) ==
    Chmod(WriteFile(fs, path, JSONStringify(metadata), PRIVATE_CREDENTIAL_FILE_MODE),
          path, PRIVATE_CREDENTIAL_FILE_MODE)

Metadata(name, t, auth) == [name |-> name, savedAt |-> Iso(t), auth |-> auth]

\* A plausible slip: the directory made before the name is validated.
UpsertMkdirFirst(dir, fs, name, auth, t) ==
    IF validateAccountName(name) # "ok"
    THEN Result(validateAccountName(name), EmptyObj, NoPath, TRUE, fs, <<"mkdir">>)
    ELSE Result("ok", EmptyObj, NoPath, TRUE,
                WriteFile(fs, accountPath(name), JSONStringify([name |-> name,
                          savedAt |-> Iso(t), auth |-> auth]), PRIVATE_CREDENTIAL_FILE_MODE),
                <<"mkdir", "writeFile", "chmod">>)

\* upsertAccount(name, auth) at instant t.
upsertAccount(dir, fs, name, auth, t) ==
    IF validateAccountName(name) # "ok"
    THEN Result(validateAccountName(name), EmptyObj, NoPath, dir, fs, << >>)
    ELSE IF IsDirectory(fs[accountPath(name)])
    THEN Result("EISDIR", EmptyObj, NoPath, TRUE, fs, <<"mkdir", "writeFile">>)
    ELSE Result("ok", EmptyObj, NoPath, TRUE,
                writeAccountFile(fs, accountPath(name), Metadata(name, t, auth)),
                <<"mkdir", "writeFile", "chmod">>)

\* A plausible slip: saveAccount without its existence check.
SaveOverwrites(dir, fs, name, auth, t) == upsertAccount(dir, fs, name, auth, t)

\* saveAccount(name, auth) at instant t.
saveAccount(dir, fs, name, auth, t) ==
    IF validateAccountName(name) # "ok"
    THEN Result(validateAccountName(name), EmptyObj, NoPath, dir, fs, << >>)
    ELSE IF IsDirectory(fs[accountPath(name)])
    THEN Result("EISDIR", EmptyObj, NoPath, TRUE, fs, <<"mkdir", "readFile">>)
    ELSE IF fs[accountPath(name)].exists
    THEN Result("AlreadyExists", EmptyObj, NoPath, TRUE, fs, <<"mkdir", "readFile">>)
    ELSE Result("ok", EmptyObj, NoPath, TRUE,
                writeAccountFile(fs, accountPath(name), Metadata(name, t, auth)),
                <<"mkdir", "readFile", "writeFile", "chmod">>)

\* loadAccount(name): status "null" is the not-found result.
loadAccount(dir, fs, name) ==
    IF validateAccountName(name) # "ok"
    THEN Result(validateAccountName(name), EmptyObj, NoPath, dir, fs, << >>)
    ELSE IF ~fs[accountPath(name)].exists
    THEN Result("null", EmptyObj, NoPath, dir, fs, <<"readFile">>)
    ELSE IF IsDirectory(fs[accountPath(name)])
    THEN Result("EISDIR", EmptyObj, NoPath, dir, fs, <<"readFile">>)
    ELSE LET m == parseAccountMetadata(fs[accountPath(name)].data, accountPath(name)) IN
         Result(m.status, m.val, m.path, dir, fs, <<"readFile">>)

\* A plausible slip: every unlink error taken for "no such file".
RemoveSwallowsErrors(dir, fs, name) ==
    IF validateAccountName(name) # "ok"
    THEN Result(validateAccountName(name), EmptyObj, NoPath, dir, fs, << >>)
    ELSE IF IsRegular(fs[accountPath(name)])
    THEN Result("ok", <<1>>, NoPath, dir, Unlink(fs, accountPath(name)), <<"unlink">>)
    ELSE Result("ok", <<0>>, NoPath, dir, fs, <<"unlink">>)

\* removeAccount(name): val is <<1>> for true, <<0>> for false; unlink of a
\* directory fails with an error that is not ENOENT and is rethrown.
removeAccount(dir, fs, name) ==
    IF validateAccountName(name) # "ok"
    THEN Result(validateAccountName(name), EmptyObj, NoPath, dir, fs, << >>)
    ELSE IF IsDirectory(fs[accountPath(name)])
    THEN Result("UnlinkError", EmptyObj, NoPath, dir, fs, <<"unlink">>)
    ELSE IF fs[accountPath(name)].exists
    THEN Result("ok", <<1>>, NoPath, dir, Unlink(fs, accountPath(name)), <<"unlink">>)
    ELSE Result("ok", <<0>>, NoPath, dir, fs, <<"unlink">>)

(***************************************************************************)
(* a.localeCompare(b), as ICU's root collation orders the characters of    *)
(* names: "_" before "-" before the digits before the letters, a letter's  *)
(* case ignored; when that leaves two strings equal, the first difference  *)
(* in case decides, lower case first.                                      *)
(***************************************************************************)
IsUpper(c) == 65 <= c /\ c <= 90

PrimaryWeight(c) ==
    IF c = 95 THEN 1
    ELSE IF c = 45 THEN 2
    ELSE IF 48 <= c /\ c <= 57 THEN 3 + (c - 48)
    ELSE IF IsUpper(c) THEN 13 + (c - 65)
    ELSE IF 97 <= c /\ c <= 122 THEN 13 + (c - 97)
    ELSE 100 + c

TertiaryWeight(c) == IF IsUpper(c) THEN 1 ELSE 0

\* The weight of character c at a level of the comparison.
Weight(level, c) == IF level = 1 THEN PrimaryWeight(c) ELSE TertiaryWeight(c)

RECURSIVE CompareBy(_, _, _, _)
\* Comparison of a and b from position i by the weights of one level:
\* -1, 0 or 1.
CompareBy(level, a, b, i) ==
    IF i > Len(a) /\ i > Len(b) THEN 0
    ELSE IF i > Len(a) THEN -1
    ELSE IF i > Len(b) THEN 1
    ELSE IF Weight(level, a[i]) < Weight(level, b[i]) THEN -1
    ELSE IF Weight(level, a[i]) > Weight(level, b[i]) THEN 1
    ELSE CompareBy(level, a, b, i + 1)

localeCompare(a, b) ==
    IF CompareBy(1, a, b, 1) # 0 THEN CompareBy(1, a, b, 1) ELSE CompareBy(3, a, b, 1)

RECURSIVE InsertSorted(_, _, _)
\* x placed after every element of the sorted sequence s that does not
\* compare greater than x (the sort is stable).
InsertSorted(s, x, i) ==
    IF i > Len(s) THEN Append(s, x)
    ELSE IF localeCompare(s[i].name, x.name) > 0
    THEN SubSeq(s, 1, i - 1) \o <<x>> \o SubSeq(s, i, Len(s))
    ELSE InsertSorted(s, x, i + 1)

RECURSIVE SortByName(_, _, _)
\* results.sort((a, b) => a.name.localeCompare(b.name))
SortByName(s, i, acc) ==
    IF i > Len(s) THEN acc
    ELSE SortByName(s, i + 1, InsertSorted(acc, s[i], 1))

\* An optional access token: null, or a string.
NoToken == [some |-> FALSE, val |-> << >>]
SomeToken(t) == [some |-> TRUE, val |-> t]

\* A plausible slip: the sort left out.
ListUnsorted(s) == s

SortResults(s) == SortByName(s, 1, << >>)

\* A plausible slip: the refresh token compared instead of the access token.
IsActiveByRefresh(meta, tok) == tok.some /\ meta.auth.tokens.refresh_token = tok.val

\* currentAccessToken !== null && meta.auth.tokens.access_token === currentAccessToken
IsActive(meta, tok) == tok.some /\ Field(meta.auth.tokens, "access_token") = tok.val

RECURSIVE ListLoop(_, _, _, _, _, _)
\* The for loop of listAccounts over the names readdir returned, from
\* number i on, `reads` files read so far: [status, val, path, reads].
\* Reading meta.auth.tokens of a record without auth throws a TypeError.
ListLoop(fs, files, i, tok, acc, reads) ==
    IF i > Len(files)
    THEN [status |-> "ok", val |-> SortResults(acc), path |-> NoPath, reads |-> reads]
    ELSE IF ~EndsWithJson(files[i]) THEN ListLoop(fs, files, i + 1, tok, acc, reads)
    ELSE LET path == JoinAccountsDir(files[i])
             m == parseAccountMetadata(fs[path].data, path)
         IN  IF IsDirectory(fs[path])
             THEN [status |-> "EISDIR", val |-> << >>, path |-> NoPath, reads |-> reads + 1]
             ELSE IF m.status # "ok"
             THEN [status |-> m.status, val |-> << >>, path |-> m.path, reads |-> reads + 1]
             ELSE IF tok.some /\ (~Has(m.val, "auth") \/ ~Has(m.val.auth, "tokens"))
             THEN [status |-> "TypeError", val |-> << >>, path |-> NoPath, reads |-> reads + 1]
             ELSE ListLoop(fs, files, i + 1, tok,
                           Append(acc, [name |-> Field(m.val, "name"),
                                        savedAt |-> Field(m.val, "savedAt"),
                                        isActive |-> IsActive(m.val, tok)]),
                           reads + 1)

\* The names of the files present: what readdir returns, in some order.
Present(fs) == {p.segs[1] : p \in {q \in DOMAIN fs : fs[q].exists}}

RECURSIVE CodeUnitLess(_, _, _)
\* a < b as JS compares strings: by code unit, a proper prefix first.
CodeUnitLess(a, b, i) ==
    IF i > Len(b) THEN FALSE
    ELSE IF i > Len(a) THEN TRUE
    ELSE IF a[i] # b[i] THEN a[i] < b[i]
    ELSE CodeUnitLess(a, b, i + 1)

RECURSIVE Ascending(_)
\* The names of S in code-unit order.
Ascending(S) ==
    IF S = {} THEN << >>
    ELSE LET least == CHOOSE x \in S : \A y \in S \ {x} : CodeUnitLess(x, y, 1)
         IN  <<least>> \o Ascending(S \ {least})

\* The orders readdir may return S in.  The directory's order is not the
\* program's to choose; what listAccounts returns depends on it only through
\* which file comes first, so the model takes every rotation of one order.
Orders(S) ==
    LET base == Ascending(S)
        n == Len(base)
    IN  IF n = 0 THEN {<< >>}
        ELSE {[i \in 1..n |-> base[((i + k - 1) % n) + 1]] : k \in 0..(n - 1)}

\* listAccounts(currentAccessToken), readdir having returned `files`.
listAccounts(dir, fs, tok, files) ==
    LET r == ListLoop(fs, files, 1, tok, << >>, 0) IN
    Result(r.status, r.val, r.path, TRUE, fs,
           <<"mkdir", "readdir">> \o [i \in 1..r.reads |-> "readFile"])

(***************************************************************************)
(* Values the specifications draw from.                                    *)
(***************************************************************************)
AuthA == MakeAuth(FakeToken(1), FakeToken(2), FakeToken(3), 0)
AuthB == MakeAuth(Jwt(150), FakeToken(4), FakeToken(5), 0)
AuthValues == {AuthA, AuthB}

\* Credentials with every optional field of CodexAuthFile.
AuthFull ==
    [tokens |-> [access_token |-> Jwt(150), refresh_token |-> FakeToken(4),
                 id_token |-> FakeToken(5), account_id |-> FakeToken(8)],
     last_refresh |-> Iso(0),
     auth_mode |-> <<99>>,
     OPENAI_API_KEY |-> <<115, 107>>]

\* Credentials with the required fields alone.
AuthBare ==
    [tokens |-> [access_token |-> FakeToken(1), refresh_token |-> FakeToken(2),
                 id_token |-> FakeToken(3)],
     last_refresh |-> Iso(0)]

WriteValues == AuthValues \cup {AuthFull, AuthBare}

NoOp == [op |-> "none"]
IdleWriter == [pc |-> "idle", auth |-> AuthA, suffix |-> "1", old |-> NoFile, status |-> "none"]
NotSeen == [seen |-> FALSE, file |-> NoFile]

procVars == <<writer, reader>>
storeVars == <<acctDir, afs>>
codexVars == <<codexDir, cfs>>

(***************************************************************************)
(* SpecName: validateAccountName applied to every name up to MaxNameLen    *)
(* over Alphabet.                                                          *)
(***************************************************************************)
InitName ==
    /\ input \in SeqsUpTo(Alphabet, MaxNameLen)
    /\ last = NoOp
    /\ io = << >>
    /\ now = 0
    /\ codexDir = "absent"
    /\ cfs = EmptyCodexFs
    /\ acctDir = FALSE
    /\ afs = << >>
    /\ writer = IdleWriter
    /\ reader = NotSeen

Validate ==
    /\ last.op = "none"
    /\ last' = [op |-> "validateAccountName",
                name |-> input,
                status |-> validateAccountName(input),
                path |-> IF validateAccountName(input) = "ok"
                         THEN accountPath(input)
                         ELSE [up |-> 0, segs |-> << >>]]
    /\ UNCHANGED <<input, io, now, codexVars, storeVars, procVars>>

NextName == Validate

SpecName == InitName /\ [][NextName]_vars

\* C6: validateAccountName fails with InvalidName exactly when the name is
\* empty or holds a character outside letters, digits, "-" and "_"; an
\* accepted name holds no "/" and no ".", and its profile path is the direct
\* child <name>.json of the profile directory.
C6_ValidateName ==
    last.op = "validateAccountName" =>
        /\ IsInvalidName(last.status) <=>
              (last.name = << >> \/
               \E i \in DOMAIN last.name : last.name[i] \notin Letters \cup Digits \cup {45, 95})
        /\ last.status \in {"ok", "InvalidName: empty", "InvalidName: characters"}
        /\ last.status = "ok" =>
              /\ 47 \notin Range(last.name)
              /\ 46 \notin Range(last.name)
              /\ last.path = [up |-> 0, segs |-> <<last.name \o JsonExt>>]

C6_Witness ==
    /\ last.op = "validateAccountName"
    /\ last.status = "ok"
    /\ Len(last.name) >= 2
    /\ 45 \in Range(last.name)

(***************************************************************************)
(* SpecAuth: writeCodexAuth one I/O call at a time (writeFile as its open  *)
(* and its write), calls following one another, with a concurrent reader   *)
(* of auth.json.  writer.old is the file auth.json was when the call began.*)
(***************************************************************************)
InitAuth ==
    /\ codexDir \in CodexDirStates
    /\ cfs \in {[EmptyCodexFs EXCEPT ![AuthFile] = f] :
                  f \in IF codexDir # "dir" THEN {NoFile}
                        ELSE {NoFile,
                              File(JSONStringify(AuthA), PRIVATE_CREDENTIAL_FILE_MODE),
                              File(<<LexJunk>>, 420)}}
    /\ writer = IdleWriter
    /\ reader = NotSeen
    /\ last = NoOp
    /\ io = << >>
    /\ now = 0
    /\ acctDir = FALSE
    /\ afs = << >>
    /\ input = << >>

authFrame == <<last, io, now, storeVars, input>>

\* writeCodexAuth(auth) is called.
WStart ==
    /\ writer.pc \in {"idle", "returned"}
    /\ \E a \in WriteValues :
         writer' = [pc |-> "access", auth |-> a, suffix |-> "1",
                    old |-> cfs[AuthFile], status |-> "running"]
    /\ reader' = NotSeen
    /\ UNCHANGED <<codexVars, authFrame>>

\* await ensureCodexDirExists()
WAccess ==
    /\ writer.pc = "access"
    /\ writer' = IF ensureCodexDirExists(codexDir) = "ok"
                 THEN [writer EXCEPT !.pc = "backup"]
                 ELSE [writer EXCEPT !.pc = "returned",
                                     !.status = ensureCodexDirExists(codexDir)]
    /\ UNCHANGED <<codexVars, reader, authFrame>>

\* await backupCodexAuth()
WBackup ==
    /\ writer.pc = "backup"
    /\ cfs' = backupCodexAuth(cfs)
    /\ writer' = [writer EXCEPT !.pc = "open"]
    /\ UNCHANGED <<codexDir, reader, authFrame>>

\* writeFile(tmpFile, ...): the random suffix is drawn and the file opened.
WOpen ==
    /\ writer.pc = "open"
    /\ \E x \in TmpSuffixes :
         /\ cfs' = OpenTrunc(cfs, TmpFile(x), PRIVATE_CREDENTIAL_FILE_MODE)
         /\ writer' = [writer EXCEPT !.pc = "write", !.suffix = x]
    /\ UNCHANGED <<codexDir, reader, authFrame>>

\* writeFile(tmpFile, ...): the text is written.
WWrite ==
    /\ writer.pc = "write"
    /\ cfs' = WriteData(cfs, TmpFile(writer.suffix), JSONStringify(writer.auth))
    /\ writer' = [writer EXCEPT !.pc = "rename"]
    /\ UNCHANGED <<codexDir, reader, authFrame>>

\* await rename(tmpFile, authFile()); the call returns.
WRename ==
    /\ writer.pc = "rename"
    /\ cfs' = Rename(cfs, TmpFile(writer.suffix), AuthFile)
    /\ writer' = [writer EXCEPT !.pc = "returned", !.status = "ok"]
    /\ UNCHANGED <<codexDir, reader, authFrame>>

\* Another process reads auth.json.
ReadAuth ==
    /\ reader' = [seen |-> TRUE, file |-> cfs[AuthFile]]
    /\ reader' # reader
    /\ UNCHANGED <<codexVars, writer, authFrame>>

NextAuth == WStart \/ WAccess \/ WBackup \/ WOpen \/ WWrite \/ WRename \/ ReadAuth

SpecAuth == InitAuth /\ [][NextAuth]_vars

WriterRunning == writer.pc \notin {"idle", "returned"}

\* C1: while write(D) runs over an existing file with content C, a concurrent
\* reader of auth.json sees exactly C or exactly D, and only the rename
\* changes what auth.json holds.
C1_AtomicReplace ==
    /\ [](WriterRunning /\ writer.old.exists /\ reader.seen =>
            /\ reader.file.exists
            /\ reader.file.data \in {writer.old.data, JSONStringify(writer.auth)})
    /\ [][cfs'[AuthFile] # cfs[AuthFile] =>
            writer.pc = "rename" /\ writer'.pc = "returned"]_vars

\* A reader has seen the old content while the new one was being staged.
C1_Witness ==
    /\ writer.pc = "rename"
    /\ writer.old.exists
    /\ reader.seen
    /\ reader.file.data = writer.old.data
    /\ reader.file.data # JSONStringify(writer.auth)

\* C2: once write(D) over a file with content C has returned, auth.json.bak
\* holds exactly C and auth.json exactly D; and the backup already holds C
\* from the moment the staging begins, so before the rename.
C2_BackupThenReplace ==
    writer.old.exists =>
        /\ writer.pc \in {"open", "write", "rename"} =>
              /\ cfs[AuthBackup].exists
              /\ cfs[AuthBackup].data = writer.old.data
              /\ cfs[AuthFile] = writer.old
        /\ writer.pc = "returned" /\ writer.status = "ok" =>
              /\ cfs[AuthBackup].exists
              /\ cfs[AuthBackup].data = writer.old.data
              /\ cfs[AuthFile].exists
              /\ cfs[AuthFile].data = JSONStringify(writer.auth)

\* A second write has returned: the backup is the first write's content.
C2_Witness ==
    /\ writer.pc = "returned"
    /\ writer.status = "ok"
    /\ writer.old.exists
    /\ writer.old.data = JSONStringify(AuthB)
    /\ writer.auth = AuthA
    /\ cfs[AuthBackup].data = JSONStringify(AuthB)

(***************************************************************************)
(* Spec: the operations of the profile store, called one after another     *)
(* with valid names, while the clock advances and the user puts files of   *)
(* his own into the profile directory.                                     *)
(***************************************************************************)
\* "a" and "B": the names the operations are called with.
StoreNames == {<<97>>, <<66>>}

\* "ab": a profile the user copies into the directory as ab.json.
CopiedNames == {<<97, 98>>}

\* "n.t": a file without the .json extension.
OtherFiles == {<<110, 46, 116>>}

PathsOf(names, others) ==
    {accountPath(n) : n \in names} \cup {JoinAccountsDir(f) : f \in others}

\* What the user may put at <name>.json: text that is no JSON, a JSON
\* object without auth and, for a copied profile, a complete record.
ExternalTexts(n) ==
    IF n \in CopiedNames
    THEN {JSONStringify(Metadata(n, 0, AuthA))}
    ELSE {<<LexJunk>>, JSONStringify([name |-> n, savedAt |-> Iso(0)])}

ListTokens ==
    {NoToken, SomeToken(AuthA.tokens.access_token),
     SomeToken(AuthB.tokens.access_token), SomeToken(FakeToken(9))}

\* The mode the file at the name's path had when the call began; 0 when
\* there was none.
ModeBefore(fs, name) ==
    IF validateAccountName(name) = "ok" /\ fs[accountPath(name)].exists
    THEN fs[accountPath(name)].mode
    ELSE 0

idleFrame == <<codexVars, procVars, input>>

Init ==
    /\ now = 0
    /\ acctDir = FALSE
    /\ afs = [p \in PathsOf(StoreNames \cup CopiedNames, OtherFiles) |-> NoFile]
    /\ last = NoOp
    /\ io = << >>
    /\ codexDir = "absent"
    /\ cfs = EmptyCodexFs
    /\ writer = IdleWriter
    /\ reader = NotSeen
    /\ input = << >>

\* The effect of a profile-store call with result r.
StoreCall(op, name, arg, r) ==
    /\ last' = [op |-> op, name |-> name, arg |-> arg, status |-> r.status,
                val |-> r.val, path |-> r.path, modeBefore |-> ModeBefore(afs, name)]
    /\ io' = r.io
    /\ acctDir' = r.dir
    /\ afs' = r.fs

Save(names) ==
    /\ \E n \in names, a \in AuthValues :
         StoreCall("save", n, a, saveAccount(acctDir, afs, n, a, now))
    /\ UNCHANGED <<now, idleFrame>>

Upsert(names) ==
    /\ \E n \in names, a \in AuthValues :
         StoreCall("upsert", n, a, upsertAccount(acctDir, afs, n, a, now))
    /\ UNCHANGED <<now, idleFrame>>

Load(names) ==
    /\ \E n \in names : StoreCall("load", n, << >>, loadAccount(acctDir, afs, n))
    /\ UNCHANGED <<now, idleFrame>>

Remove(names) ==
    /\ \E n \in names : StoreCall("remove", n, << >>, removeAccount(acctDir, afs, n))
    /\ UNCHANGED <<now, idleFrame>>

List ==
    /\ \E tok \in ListTokens, files \in Orders(Present(afs)) :
         StoreCall("list", << >>, tok, listAccounts(acctDir, afs, tok, files))
    /\ UNCHANGED <<now, idleFrame>>

\* Time passes, one grace window at a time.
Tick ==
    /\ now < MaxNow * EXPIRY_GRACE_SECONDS
    /\ now' = now + EXPIRY_GRACE_SECONDS
    /\ last' = NoOp
    /\ io' = << >>
    /\ UNCHANGED <<storeVars, idleFrame>>

\* The user writes a file of his own into the profile directory.
ExternalPut ==
    /\ \/ \E n \in StoreNames \cup CopiedNames : \E raw \in ExternalTexts(n) :
            afs' = [afs EXCEPT ![accountPath(n)] = File(raw, 420)]
       \/ \E f \in OtherFiles :
            afs' = [afs EXCEPT ![JoinAccountsDir(f)] = File(<<LexJunk>>, 420)]
    /\ acctDir' = TRUE
    /\ last' = NoOp
    /\ io' = << >>
    /\ UNCHANGED <<now, idleFrame>>

Next ==
    \/ Save(StoreNames)
    \/ Upsert(StoreNames)
    \/ Load(StoreNames)
    \/ Remove(StoreNames)
    \/ List
    \/ Tick
    \/ ExternalPut

Spec == Init /\ [][Next]_vars

(***************************************************************************)
(* The data model the claims speak of: a CredentialSet has its three       *)
(* tokens, non-empty; a ProfileRecord has a name, savedAt and a            *)
(* CredentialSet.                                                          *)
(***************************************************************************)
IsCredentialSet(v) ==
    /\ Has(v, "tokens")
    /\ \A k \in {"access_token", "refresh_token", "id_token"} :
         Has(v.tokens, k) /\ v.tokens[k] # << >>

IsProfileRecord(v) ==
    /\ Has(v, "name")
    /\ Has(v, "savedAt")
    /\ Has(v, "auth")
    /\ IsCredentialSet(v.auth)

WellFormedProfile(file) == JSONParse(file.data).ok /\ IsProfileRecord(JSONParse(file.data).val)

\* The profile files of the directory: the files present named *.json.
ProfileFiles == {p \in DOMAIN afs : afs[p].exists /\ EndsWithJson(p.segs[1])}

\* C4: save(name, credentials) for a name whose profile file is present
\* fails with AlreadyExists and leaves every profile file as it was.
C4_SaveNeverOverwrites ==
    [][last'.op = "save" /\ afs[accountPath(last'.name)].exists =>
          /\ last'.status = "AlreadyExists"
          /\ afs' = afs]_vars

\* A save was refused over a profile that holds other credentials, saved at
\* another instant.
C4_Witness ==
    /\ last.op = "save"
    /\ last.status = "AlreadyExists"
    /\ WellFormedProfile(afs[accountPath(last.name)])
    /\ JSONParse(afs[accountPath(last.name)].data).val.auth # last.arg
    /\ JSONParse(afs[accountPath(last.name)].data).val.savedAt # Iso(now)

\* C7: load(name) returns the stored record when the file is a well-formed
\* ProfileRecord, not-found when there is no file, and fails with
\* MalformedProfile naming the path when the file is not one.
C7_LoadThreeOutcomes ==
    last.op = "load" =>
        LET f == afs[accountPath(last.name)] IN
        /\ ~f.exists => last.status = "null"
        /\ f.exists /\ WellFormedProfile(f) =>
              last.status = "ok" /\ last.val = JSONParse(f.data).val
        /\ f.exists /\ ~WellFormedProfile(f) =>
              last.status = "MalformedProfile" /\ last.path = accountPath(last.name)

\* C8: list fails with MalformedProfile, naming an offending file, whenever
\* a profile file is not a well-formed ProfileRecord.
C8_ListRejectsMalformed ==
    last.op = "list" /\ (\E p \in ProfileFiles : ~WellFormedProfile(afs[p])) =>
        /\ last.status = "MalformedProfile"
        /\ last.path \in {p \in ProfileFiles : ~WellFormedProfile(afs[p])}

\* The names the profile files hold.
StoredNames == {Field(JSONParse(afs[p].data).val, "name") : p \in ProfileFiles}

OnePerProfileFile ==
    /\ Len(last.val) = Cardinality(ProfileFiles)
    /\ {last.val[i].name : i \in DOMAIN last.val} = StoredNames

StoredAccessToken(n) ==
    LET v == JSONParse(afs[accountPath(n)].data).val IN
    IF Has(v, "auth") /\ Has(v.auth, "tokens")
    THEN Field(v.auth.tokens, "access_token")
    ELSE Undefined

\* C10: an entry of list(activeAccessToken) is active exactly when a token
\* was supplied and the profile's stored access token equals it.
C10_ActiveIffTokenMatches ==
    last.op = "list" /\ last.status = "ok" =>
        \A i \in DOMAIN last.val :
            last.val[i].isActive <=>
                (last.arg.some /\ StoredAccessToken(last.val[i].name) = last.arg.val)

\* A listing with a token marks one profile and leaves another unmarked.
C10_Witness ==
    /\ last.op = "list"
    /\ last.status = "ok"
    /\ last.arg.some
    /\ \E i, j \in DOMAIN last.val : last.val[i].isActive /\ ~last.val[j].isActive

(***************************************************************************)
(* Token refresh (token-refresh.ts).  The payload part of a token is one   *)
(* code: 1000 + exp stands for the base64url text of {"exp": exp}, 999 for *)
(* that of {}, 998 for that of {"exp": "soon"}; any other text does not    *)
(* decode to JSON.                                                         *)
(***************************************************************************)
NoPayload == [ok |-> FALSE, hasExp |-> FALSE, exp |-> 0]

\* decodeJwtPayload(token): null unless the token has three parts and the
\* second decodes to JSON.
decodeJwtPayload(token) ==
    LET parts == Split(token, 46) IN
    IF Len(parts) # 3 THEN NoPayload
    ELSE IF Len(parts[2]) = 1 /\ parts[2][1] >= 1000
    THEN [ok |-> TRUE, hasExp |-> TRUE, exp |-> parts[2][1] - 1000]
    ELSE IF parts[2] \in {<<998>>, <<999>>}
    THEN [ok |-> TRUE, hasExp |-> FALSE, exp |-> 0]
    ELSE NoPayload

\* A plausible slip: the grace window compared with < .
IsExpiredStrict(auth, t) ==
    LET payload == decodeJwtPayload(auth.tokens.access_token) IN
    IF ~payload.ok \/ ~payload.hasExp THEN TRUE
    ELSE payload.exp - t < EXPIRY_GRACE_SECONDS

\* isAccessTokenExpired(auth) at instant t (seconds).
isAccessTokenExpired(auth, t) ==
    LET payload == decodeJwtPayload(auth.tokens.access_token) IN
    IF ~payload.ok \/ ~payload.hasExp THEN TRUE
    ELSE payload.exp - t <= EXPIRY_GRACE_SECONDS

\* A field of the response body is falsy: absent or the empty string.
Falsy(o, k) == ~Has(o, k) \/ o[k] = << >>

\* The outcome of refreshTokens: the value returned or the error thrown
\* [status, detail], the fetch calls made [io] and the refresh token each
\* request carried [sent].
Exchange(status, val, detail, calls, sent) ==
    [status |-> status, val |-> val, detail |-> detail, io |-> calls, sent |-> sent]

\* refreshTokens(refreshToken), the endpoint answering `response`: [fails]
\* fetch rejects with the error [body]; otherwise [ok] the status [code] is
\* 2xx and [json] tells what the body is: "text" that is no JSON ([body]
\* holds the text), the JSON "null", or a JSON "object" ([body] is it).
refreshTokens(refreshToken, response) ==
    IF response.fails
    THEN Exchange("NetworkError", EmptyObj, response.body, <<"fetch">>, <<refreshToken>>)
    ELSE IF ~response.ok
    THEN Exchange("RefreshFailed", EmptyObj,
                  [code |-> response.code, text |-> response.body.text],
                  <<"fetch">>, <<refreshToken>>)
    ELSE IF response.json = "text"
    THEN Exchange("SyntaxError", EmptyObj, << >>, <<"fetch">>, <<refreshToken>>)
    ELSE IF response.json = "null"
    THEN Exchange("TypeError", EmptyObj, << >>, <<"fetch">>, <<refreshToken>>)
    ELSE IF Falsy(response.body, "access_token") \/ Falsy(response.body, "id_token")
    THEN Exchange("RefreshResponseInvalid", EmptyObj, << >>, <<"fetch">>, <<refreshToken>>)
    ELSE Exchange("ok", response.body, << >>, <<"fetch">>, <<refreshToken>>)

\* result.refresh_token ?? auth.tokens.refresh_token
RefreshTokenCoalesce(result, stored) ==
    IF Has(result, "refresh_token") THEN result.refresh_token ELSE stored

\* The outcome of refreshAuthIfExpired: [auth, refreshed] returned or the
\* error thrown [status, detail]; [same] the object returned is the very
\* object passed in; [input] the object passed in, as it is after the call;
\* [io, sent] as for refreshTokens.
Refreshed(status, auth, refreshed, same, passed, r) ==
    [status |-> status, auth |-> auth, refreshed |-> refreshed, same |-> same,
     input |-> passed, detail |-> r.detail, io |-> r.io, sent |-> r.sent]

NoExchange == Exchange("ok", EmptyObj, << >>, << >>, << >>)

\* A plausible slip: the token exchanged whether expired or not.
RefreshAlways(auth, t, response) ==
    LET r == refreshTokens(auth.tokens.refresh_token, response) IN
    Refreshed(r.status, auth, FALSE, TRUE, auth, r)

\* A plausible slip: the new object built from the tokens alone.
RefreshDropsFields(auth, t, response) ==
    LET r == refreshTokens(auth.tokens.refresh_token, response) IN
    IF r.status # "ok"
    THEN Refreshed(r.status, auth, FALSE, TRUE, auth, r)
    ELSE Refreshed("ok",
                   [tokens |-> [access_token |-> r.val.access_token,
                                refresh_token |-> RefreshTokenCoalesce(r.val,
                                                     auth.tokens.refresh_token),
                                id_token |-> r.val.id_token],
                    last_refresh |-> Iso(t)],
                   TRUE, FALSE, auth, r)

\* refreshAuthIfExpired(auth) at instant t.
refreshAuthIfExpired(auth, t, response) ==
    IF ~isAccessTokenExpired(auth, t)
    THEN Refreshed("ok", auth, FALSE, TRUE, auth, NoExchange)
    ELSE LET r == refreshTokens(auth.tokens.refresh_token, response) IN
         IF r.status # "ok"
         THEN Refreshed(r.status, auth, FALSE, TRUE, auth, r)
         ELSE Refreshed("ok",
                        [auth EXCEPT
                           !.tokens = [@ EXCEPT
                              !.access_token = r.val.access_token,
                              !.refresh_token = RefreshTokenCoalesce(r.val, @),
                              !.id_token = r.val.id_token],
                           !.last_refresh = Iso(t)],
                        TRUE, FALSE, auth, r)

(***************************************************************************)
(* The commands (index.ts).  A command is a function of the two            *)
(* directories, the instant and what its environment answers:              *)
(* [code, status, path, dir, fs, cdir, cfs, io], the exit code, the error  *)
(* reported, the path it names, both directories after the command and the *)
(* calls made (spawn, fetch and the file-system calls).                    *)
(***************************************************************************)
CliResult(code, status, path, dir, fs, cdir, cfiles, calls) ==
    [code |-> code, status |-> status, path |-> path, dir |-> dir, fs |-> fs,
     cdir |-> cdir, cfs |-> cfiles, io |-> calls]

\* What `codex login` did: [error] the spawn failed, [code] its exit code,
\* [wrote] it wrote the credentials [auth] to ~/.codex/auth.json.
LoginWrote(cdir, cfiles, login) ==
    IF login.wrote
    THEN [cdir |-> "dir",
          cfs |-> WriteFile(cfiles, AuthFile, JSONStringify(login.auth),
                            PRIVATE_CREDENTIAL_FILE_MODE)]
    ELSE [cdir |-> cdir, cfs |-> cfiles]

\* cmdAdd(name) at instant t.
cmdAdd(dir, fs, cdir, cfiles, name, login, t) ==
    IF validateAccountName(name) # "ok"
    THEN CliResult(1, validateAccountName(name), NoPath, dir, fs, cdir, cfiles, << >>)
    ELSE IF login.error
    THEN CliResult(1, "SpawnError", NoPath, dir, fs, cdir, cfiles, <<"spawn">>)
    ELSE LET c == LoginWrote(cdir, cfiles, login) IN
         IF login.code # 0
         THEN CliResult(1, "LoginExit", NoPath, dir, fs, c.cdir, c.cfs, <<"spawn">>)
         ELSE LET newAuth == readCodexAuth(c.cfs) IN
              IF newAuth.status = "null"
              THEN CliResult(1, "NoCredentials", NoPath, dir, fs, c.cdir, c.cfs,
                             <<"spawn", "readFile">>)
              ELSE IF newAuth.status # "ok"
              THEN CliResult(1, newAuth.status, NoPath, dir, fs, c.cdir, c.cfs,
                             <<"spawn", "readFile">>)
              ELSE LET u == upsertAccount(dir, fs, name, newAuth.val, t) IN
                   CliResult(IF u.status = "ok" THEN 0 ELSE 1, u.status, NoPath,
                             u.dir, u.fs, c.cdir, c.cfs,
                             <<"spawn", "readFile">> \o u.io)

\* The calls of writeCodexAuth.
WriteCodexAuthCalls(status) ==
    IF status = "ok" THEN <<"access", "copyFile", "writeFile", "rename">> ELSE <<"access">>

\* A plausible slip: the profile not updated after a refresh.
CmdSwitchNoUpsert(dir, fs, cdir, cfiles, name, response, suffix, t) ==
    LET account == loadAccount(dir, fs, name)
        f == refreshAuthIfExpired(account.val.auth, t, response)
        w == writeCodexAuth(cdir, cfiles, f.auth, suffix)
    IN  IF account.status = "null"
        THEN CliResult(1, "NotFound", NoPath, dir, fs, cdir, cfiles, account.io)
        ELSE IF f.status # "ok"
        THEN CliResult(1, f.status, NoPath, dir, fs, cdir, cfiles, account.io \o f.io)
        ELSE IF w.status # "ok"
        THEN CliResult(1, w.status, NoPath, dir, fs, cdir, cfiles,
                       account.io \o f.io \o WriteCodexAuthCalls(w.status))
        ELSE CliResult(0, IF f.refreshed THEN "refreshed" ELSE "ok", NoPath, dir, fs,
                       cdir, w.fs, account.io \o f.io \o WriteCodexAuthCalls(w.status))

\* A plausible slip: the stored credentials written to auth.json before the
\* refresh is attempted.
CmdSwitchWriteFirst(dir, fs, cdir, cfiles, name, response, suffix, t) ==
    LET account == loadAccount(dir, fs, name)
        w == writeCodexAuth(cdir, cfiles, account.val.auth, suffix)
        f == refreshAuthIfExpired(account.val.auth, t, response)
    IN  IF account.status = "null"
        THEN CliResult(1, "NotFound", NoPath, dir, fs, cdir, cfiles, account.io)
        ELSE IF w.status # "ok"
        THEN CliResult(1, w.status, NoPath, dir, fs, cdir, cfiles,
                       account.io \o WriteCodexAuthCalls(w.status))
        ELSE IF f.status # "ok"
        THEN CliResult(1, f.status, NoPath, dir, fs, cdir, w.fs,
                       account.io \o WriteCodexAuthCalls(w.status) \o f.io)
        ELSE CliResult(0, IF f.refreshed THEN "refreshed" ELSE "ok", NoPath, dir, fs,
                       cdir, w.fs, account.io \o WriteCodexAuthCalls(w.status) \o f.io)

\* cmdSwitch(name) at instant t, the endpoint answering `response`, the
\* temporary file drawing `suffix`.
cmdSwitch(dir, fs, cdir, cfiles, name, response, suffix, t) ==
    IF validateAccountName(name) # "ok"
    THEN CliResult(1, validateAccountName(name), NoPath, dir, fs, cdir, cfiles, << >>)
    ELSE LET account == loadAccount(dir, fs, name) IN
         IF account.status = "null"
         THEN CliResult(1, "NotFound", NoPath, dir, fs, cdir, cfiles, account.io)
         ELSE IF account.status # "ok"
         THEN CliResult(1, account.status, account.path, dir, fs, cdir, cfiles, account.io)
         ELSE IF \/ ~Has(account.val, "auth")
                 \/ ~Has(account.val.auth, "tokens")
                 \/ ~Has(account.val.auth.tokens, "access_token")
         THEN CliResult(1, "TypeError", NoPath, dir, fs, cdir, cfiles, account.io)
         ELSE LET f == refreshAuthIfExpired(account.val.auth, t, response) IN
              IF f.status # "ok"
              THEN CliResult(1, f.status, NoPath, dir, fs, cdir, cfiles, account.io \o f.io)
              ELSE LET w == writeCodexAuth(cdir, cfiles, f.auth, suffix) IN
                   IF w.status # "ok"
                   THEN CliResult(1, w.status, NoPath, dir, fs, cdir, cfiles,
                                  account.io \o f.io \o WriteCodexAuthCalls(w.status))
                   ELSE IF f.refreshed
                   THEN LET u == upsertAccount(dir, fs, name, f.auth, t) IN
                        CliResult(0, "refreshed", NoPath, u.dir, u.fs, cdir, w.fs,
                                  account.io \o f.io \o WriteCodexAuthCalls(w.status) \o u.io)
                   ELSE CliResult(0, "ok", NoPath, dir, fs, cdir, w.fs,
                                  account.io \o f.io \o WriteCodexAuthCalls(w.status))

\* cmdRemove(name).
cmdRemove(dir, fs, cdir, cfiles, name) ==
    IF validateAccountName(name) # "ok"
    THEN CliResult(1, validateAccountName(name), NoPath, dir, fs, cdir, cfiles, << >>)
    ELSE LET removed == removeAccount(dir, fs, name) IN
         IF removed.val = <<0>>
         THEN CliResult(1, "NotFound", NoPath, dir, fs, cdir, cfiles, removed.io)
         ELSE CliResult(0, "ok", NoPath, removed.dir, removed.fs, cdir, cfiles, removed.io)

\* cmdList(), readdir having returned `files`.
cmdList(dir, fs, cdir, cfiles, files) ==
    LET currentAuth == readCodexAuth(cfiles) IN
    IF currentAuth.status \notin {"ok", "null"}
    THEN CliResult(1, currentAuth.status, NoPath, dir, fs, cdir, cfiles, <<"readFile">>)
    ELSE LET currentToken == IF currentAuth.status = "null" THEN NoToken
                             ELSE SomeToken(currentAuth.val.tokens.access_token)
             accounts == listAccounts(dir, fs, currentToken, files)
         IN  CliResult(IF accounts.status = "ok" THEN 0 ELSE 1, accounts.status,
                       accounts.path, accounts.dir, accounts.fs, cdir, cfiles,
                       <<"readFile">> \o accounts.io)

\* What cmdList logs, one line for each account: its name and whether the
\* line carries the marker " (active)"; nothing when the command fails.
cmdListLog(dir, fs, cfiles, files) ==
    LET currentAuth == readCodexAuth(cfiles) IN
    IF currentAuth.status \notin {"ok", "null"} THEN << >>
    ELSE LET currentToken == IF currentAuth.status = "null" THEN NoToken
                             ELSE SomeToken(currentAuth.val.tokens.access_token)
             accounts == listAccounts(dir, fs, currentToken, files)
         IN  IF accounts.status # "ok" THEN << >>
             ELSE [i \in 1..Len(accounts.val) |->
                     [name |-> accounts.val[i].name, marker |-> accounts.val[i].isActive]]

(***************************************************************************)
(* SpecCli: the four commands, run one after another from an empty         *)
(* profile directory, while time passes.                                   *)
(***************************************************************************)
FreshAccess == Jwt(300)

\* A response of the token endpoint.
Response(fails, code, json, body) ==
    [fails |-> fails, ok |-> (200 <= code /\ code <= 299), code |-> code,
     json |-> json, body |-> body]

\* What the token endpoint may answer: a network error, 403 "F", and 200
\* with a JSON object.
TokenResponses ==
    {Response(TRUE, 0, "none", [error |-> <<110>>]),
     Response(FALSE, 403, "text", [text |-> <<70>>]),
     Response(FALSE, 200, "object", [access_token |-> FreshAccess]),
     Response(FALSE, 200, "object",
              [access_token |-> FreshAccess, id_token |-> FakeToken(6)]),
     Response(FALSE, 200, "object",
              [access_token |-> FreshAccess, id_token |-> FakeToken(6),
               refresh_token |-> FakeToken(7)]),
     Response(FALSE, 200, "object",
              [access_token |-> FreshAccess, id_token |-> FakeToken(6),
               refresh_token |-> << >>])}

\* What `codex login` may do.
Logins ==
    {[error |-> TRUE, code |-> 1, wrote |-> FALSE, auth |-> AuthA],
     [error |-> FALSE, code |-> 1, wrote |-> FALSE, auth |-> AuthA],
     [error |-> FALSE, code |-> 0, wrote |-> FALSE, auth |-> AuthA]}
    \cup {[error |-> FALSE, code |-> 0, wrote |-> TRUE, auth |-> a] : a \in AuthValues}

\* The effect of a command with result r.
CliCall(op, name, arg, r) ==
    /\ last' = [op |-> op, name |-> name, arg |-> arg,
                status |-> r.status, val |-> <<r.code>>, path |-> r.path]
    /\ io' = r.io
    /\ acctDir' = r.dir
    /\ afs' = r.fs
    /\ codexDir' = r.cdir
    /\ cfs' = r.cfs

cliFrame == <<now, procVars, input>>

CmdAdd(names) ==
    /\ \E n \in names, login \in Logins :
         CliCall("add", n, login, cmdAdd(acctDir, afs, codexDir, cfs, n, login, now))
    /\ UNCHANGED cliFrame

CmdSwitch(names) ==
    /\ \E n \in names, response \in TokenResponses :
         CliCall("switch", n, response,
                 cmdSwitch(acctDir, afs, codexDir, cfs, n, response, "1", now))
    /\ UNCHANGED cliFrame

CmdRemove(names) ==
    /\ \E n \in names :
         CliCall("cmdRemove", n, << >>, cmdRemove(acctDir, afs, codexDir, cfs, n))
    /\ UNCHANGED cliFrame

CmdList ==
    /\ \E files \in Orders(Present(afs)) :
         CliCall("cmdList", << >>, << >>, cmdList(acctDir, afs, codexDir, cfs, files))
    /\ UNCHANGED cliFrame

CliNames == {<<97>>}

NextCli ==
    \/ CmdAdd(CliNames)
    \/ CmdSwitch(CliNames)
    \/ CmdRemove(CliNames)
    \/ CmdList
    \/ Tick

SpecCli == Init /\ [][NextCli]_vars

\* C3: the active credential file, when present, and the credentials of
\* every profile file are valid JSON with non-empty access_token,
\* refresh_token and id_token.
C3_CredentialFilesWellFormed ==
    /\ cfs[AuthFile].exists =>
          /\ JSONParse(cfs[AuthFile].data).ok
          /\ IsCredentialSet(JSONParse(cfs[AuthFile].data).val)
    /\ \A p \in ProfileFiles :
          /\ JSONParse(afs[p].data).ok
          /\ Has(JSONParse(afs[p].data).val, "auth")
          /\ IsCredentialSet(JSONParse(afs[p].data).val.auth)

\* The credentials now in auth.json lack a token: a switch refreshed with a
\* response whose refresh_token is empty.
C3_Reached ==
    /\ last.op = "switch"
    /\ last.status = "refreshed"
    /\ readCodexAuth(cfs).status = "MissingTokenFields"

(***************************************************************************)
(* SpecOps: every operation that takes a name, called with names the       *)
(* pattern rejects and with one it accepts.                                *)
(***************************************************************************)
\* "", "../B", "a.b", "a b"
InvalidNames == {<< >>, <<46, 46, 47, 66>>, <<97, 46, 98>>, <<97, 32, 98>>}

OpsNames == InvalidNames \cup {<<97>>}

\* A name is invalid: empty, or holding a character outside letters, digits,
\* hyphen and underscore.
NameIsInvalid(n) == n = << >> \/ \E i \in DOMAIN n : ~InNameClass(n[i])

NamedOps == {"save", "upsert", "load", "remove", "add", "switch", "cmdRemove"}

NextOps ==
    \/ Save(OpsNames)
    \/ Upsert(OpsNames)
    \/ Load(OpsNames)
    \/ Remove(OpsNames)
    \/ CmdAdd(OpsNames)
    \/ CmdSwitch(OpsNames)
    \/ CmdRemove(OpsNames)

SpecOps == Init /\ [][NextOps]_vars

\* C5: save, upsert, load, remove and the commands add, switch and remove,
\* given an invalid name, fail with InvalidName having made no call (no
\* mkdir, no file read, written or deleted, no login spawned, no refresh
\* requested) and leave both directories as they were.
C5_InvalidNameFailsFirst ==
    [][last'.op \in NamedOps /\ NameIsInvalid(last'.name) =>
          /\ last'.status \in {"InvalidName: empty", "InvalidName: characters"}
          /\ last'.op \in {"add", "switch", "cmdRemove"} => last'.val = <<1>>
          /\ io' = << >>
          /\ UNCHANGED <<storeVars, codexVars>>]_vars

\* add was given "../B" while a profile and auth.json exist, the login
\* ready to write other credentials: nothing was spawned.
C5_Witness ==
    /\ last.op = "add"
    /\ last.name = <<46, 46, 47, 66>>
    /\ last.arg.wrote
    /\ ProfileFiles # {}
    /\ cfs[AuthFile].exists
    /\ cfs[AuthFile].data # JSONStringify(last.arg.auth)
    /\ io = << >>

(***************************************************************************)
(* SpecRemove: profiles saved, loaded and removed, where the user may have *)
(* made a directory at a profile's path.                                   *)
(***************************************************************************)
\* mkdir(<accounts>/<name>.json) by the user, where nothing is yet.
ExternalMkdir ==
    /\ \E n \in StoreNames :
         /\ ~afs[accountPath(n)].exists
         /\ afs' = [afs EXCEPT ![accountPath(n)] = Directory]
    /\ acctDir' = TRUE
    /\ last' = NoOp
    /\ io' = << >>
    /\ UNCHANGED <<now, idleFrame>>

NextRemove ==
    \/ Save(StoreNames)
    \/ Load(StoreNames)
    \/ Remove(StoreNames)
    \/ ExternalMkdir

SpecRemove == Init /\ [][NextRemove]_vars

\* C11: remove(name) returns true when a profile file existed, deleting it
\* alone, so that load(name) then finds nothing; returns false and changes
\* nothing when there was none; and fails, neither true nor false, when the
\* deletion fails otherwise (the path is a directory).
C11_RemoveOutcomes ==
    [][last'.op = "remove" =>
          LET p == accountPath(last'.name) IN
          /\ IsRegular(afs[p]) =>
                /\ last'.status = "ok" /\ last'.val = <<1>>
                /\ afs' = [afs EXCEPT ![p] = NoFile]
                /\ acctDir' = acctDir
                /\ loadAccount(acctDir', afs', last'.name).status = "null"
          /\ ~afs[p].exists =>
                /\ last'.status = "ok" /\ last'.val = <<0>>
                /\ UNCHANGED storeVars
          /\ IsDirectory(afs[p]) =>
                /\ last'.status \notin {"ok", "null"}
                /\ last'.val \notin {<<0>>, <<1>>}
                /\ UNCHANGED storeVars]_vars

\* A profile was removed while the other name holds a profile or a directory.
C11_Witness ==
    /\ last.op = "remove"
    /\ last.val = <<1>>
    /\ ~afs[accountPath(last.name)].exists
    /\ \E p \in DOMAIN afs : afs[p].exists

\* C12: after upsert(name, credentials), which succeeds whether or not a
\* profile existed, load(name) returns a record with exactly those
\* credentials and the profile file's mode is 0600.
C12_UpsertReplaces ==
    last.op = "upsert" =>
        LET f == afs[accountPath(last.name)]
            l == loadAccount(acctDir, afs, last.name)
        IN  /\ last.status = "ok"
            /\ IsRegular(f)
            /\ f.mode = PRIVATE_CREDENTIAL_FILE_MODE
            /\ l.status = "ok"
            /\ l.val.auth = last.arg
            /\ l.val.name = last.name

\* An upsert replaced a file whose mode was 0644.
C12_Witness ==
    /\ last.op = "upsert"
    /\ last.modeBefore = 420
    /\ afs[accountPath(last.name)].mode = PRIVATE_CREDENTIAL_FILE_MODE

(***************************************************************************)
(* SpecStaging: writeCodexAuth step by step, as in SpecAuth, in a          *)
(* directory where a file may already lie at the path the staging file     *)
(* will draw (left by anyone able to write there), mode 0644.              *)
(***************************************************************************)
ExternalTmp ==
    /\ ~WriterRunning
    /\ codexDir = "dir"
    /\ \E x \in TmpSuffixes :
         /\ ~cfs[TmpFile(x)].exists
         /\ cfs' = [cfs EXCEPT ![TmpFile(x)] = File(<<LexJunk>>, 420)]
    /\ UNCHANGED <<codexDir, procVars, authFrame>>

NextStaging == NextAuth \/ ExternalTmp

SpecStaging == InitAuth /\ [][NextStaging]_vars

\* C13: once write(credentials) has returned successfully, the mode of
\* auth.json is exactly 0600, whatever the mode of the file it replaced or of
\* a file already present at the staging path.
C13_WritePrivateMode ==
    writer.pc = "returned" /\ writer.status = "ok" =>
        cfs[AuthFile].mode = PRIVATE_CREDENTIAL_FILE_MODE

\* A write has returned leaving auth.json with mode 0644.
C13_Reached ==
    /\ writer.pc = "returned"
    /\ writer.status = "ok"
    /\ cfs[AuthFile].data = JSONStringify(writer.auth)
    /\ cfs[AuthFile].mode = 420

\* C14: where ~/.codex does not exist, write(credentials) fails with
\* MissingHomeDirectoryStructure and no file of the directory comes to be;
\* where the access check fails otherwise, that error is what the caller
\* gets, and again nothing is written.
C14_MissingDirNoChange ==
    codexDir # "dir" =>
        /\ cfs = EmptyCodexFs
        /\ writer.pc \in {"idle", "access", "returned"}
        /\ writer.pc = "returned" =>
              writer.status = IF codexDir \in {"absent", "notdir"}
                              THEN "MissingCodexDir" ELSE "EACCES"

\* A write has failed for want of ~/.codex.
C14_Witness ==
    /\ codexDir = "absent"
    /\ writer.pc = "returned"
    /\ writer.status = "MissingCodexDir"
    /\ cfs = EmptyCodexFs

\* C15: write(D) followed by read() returns a value equal to D, field by
\* field, for every valid D, whether or not auth.json existed before.
C15_WriteReadRoundTrip ==
    writer.pc = "returned" /\ writer.status = "ok" =>
        /\ readCodexAuth(cfs).status = "ok"
        /\ readCodexAuth(cfs).val = writer.auth

\* Credentials with every optional field were written where no auth.json
\* was, and read back.
C15_Witness ==
    /\ writer.pc = "returned"
    /\ writer.status = "ok"
    /\ ~writer.old.exists
    /\ writer.auth = AuthFull
    /\ readCodexAuth(cfs).val = AuthFull

(***************************************************************************)
(* SpecExpiry: isAccessTokenExpired applied, at an instant, to every       *)
(* access token made of up to MaxSegments segments joined by dots.         *)
(***************************************************************************)
MaxSegments == 4

\* "", "h", {"exp": "soon"}, {}, and payloads whose exp is 60, 61, 120 and
\* 121 seconds after the epoch.
ExpirySegments ==
    {<< >>, <<104>>, <<998>>, <<999>>, <<1060>>, <<1061>>, <<1120>>, <<1121>>}

RECURSIVE JoinDots(_)
\* segs.join(".")
JoinDots(segs) ==
    IF Len(segs) = 1 THEN segs[1]
    ELSE segs[1] \o <<46>> \o JoinDots(Tail(segs))

InitExpiry ==
    /\ input \in {segs \in SeqsUpTo(ExpirySegments, MaxSegments) : Len(segs) >= 1}
    /\ now \in {k * EXPIRY_GRACE_SECONDS : k \in 0..MaxNow}
    /\ last = NoOp
    /\ io = << >>
    /\ codexDir = "absent"
    /\ cfs = EmptyCodexFs
    /\ acctDir = FALSE
    /\ afs = << >>
    /\ writer = IdleWriter
    /\ reader = NotSeen

CheckExpired ==
    /\ last.op = "none"
    /\ last' = [op |-> "isExpired",
                val |-> IF isAccessTokenExpired(
                             MakeAuth(JoinDots(input), FakeToken(2), FakeToken(3), 0), now)
                        THEN <<1>> ELSE <<0>>]
    /\ UNCHANGED <<io, now, codexVars, storeVars, procVars, input>>

NextExpiry == CheckExpired

SpecExpiry == InitExpiry /\ [][NextExpiry]_vars

\* A segment decodes to JSON; the JSON has a numeric exp; that exp.
DecodesToJson(seg) == Len(seg) = 1 /\ seg[1] >= 998
HasNumericExp(seg) == Len(seg) = 1 /\ seg[1] >= 1000
ExpOf(seg) == seg[1] - 1000

\* C16: isExpired is true exactly when the access token has not three
\* dot-separated segments, or the middle one does not decode to JSON, or the
\* payload has no numeric exp, or exp - now <= 60; exp = now + 60 is expired
\* and exp = now + 61 is not.
C16_ExpiredExactly ==
    last.op = "isExpired" =>
        /\ last.val = <<1>> <=>
              \/ Len(input) # 3
              \/ ~DecodesToJson(input[2])
              \/ ~HasNumericExp(input[2])
              \/ ExpOf(input[2]) - now <= 60
        /\ Len(input) = 3 /\ input[2] = <<1000 + now + 60>> => last.val = <<1>>
        /\ Len(input) = 3 /\ input[2] = <<1000 + now + 61>> => last.val = <<0>>

\* A token whose exp is now + 61 was found not expired.
C16_Witness ==
    /\ last.op = "isExpired"
    /\ Len(input) = 3
    /\ input[2] = <<1000 + now + 61>>
    /\ last.val = <<0>>

(***************************************************************************)
(* SpecRefresh: refreshAuthIfExpired and refreshTokens applied, at an      *)
(* instant, to credentials and an answer of the token endpoint.            *)
(***************************************************************************)
\* Answers beyond those of TokenResponses: 500 with an empty body, 200 with
\* a body that is no JSON, with null, and with objects lacking or holding
\* empty tokens.
ExchangeResponses ==
    TokenResponses \cup
    {Response(FALSE, 500, "text", [text |-> << >>]),
     Response(FALSE, 200, "text", [text |-> <<60>>]),
     Response(FALSE, 200, "null", [text |-> << >>]),
     Response(FALSE, 200, "object", [id_token |-> FakeToken(6)]),
     Response(FALSE, 200, "object", [access_token |-> << >>, id_token |-> FakeToken(6)]),
     Response(FALSE, 200, "object", [access_token |-> FreshAccess, id_token |-> << >>])}

InitRefresh ==
    /\ input \in [auth : WriteValues, response : ExchangeResponses]
    /\ now \in {k * EXPIRY_GRACE_SECONDS : k \in 0..MaxNow}
    /\ last = NoOp
    /\ io = << >>
    /\ codexDir = "absent"
    /\ cfs = EmptyCodexFs
    /\ acctDir = FALSE
    /\ afs = << >>
    /\ writer = IdleWriter
    /\ reader = NotSeen

refreshFrame == <<now, codexVars, storeVars, procVars, input>>

RefreshIfExpired ==
    /\ last.op = "none"
    /\ last' = [op |-> "refreshIfExpired",
                result |-> refreshAuthIfExpired(input.auth, now, input.response)]
    /\ io' = last'.result.io
    /\ UNCHANGED refreshFrame

ExchangeTokens ==
    /\ last.op = "none"
    /\ last' = [op |-> "exchange",
                result |-> refreshTokens(input.auth.tokens.refresh_token, input.response)]
    /\ io' = last'.result.io
    /\ UNCHANGED refreshFrame

NextRefresh == RefreshIfExpired \/ ExchangeTokens

SpecRefresh == InitRefresh /\ [][NextRefresh]_vars

\* The credentials are expired at the instant: the condition of C16.
ExpiredAt(auth, t) ==
    LET segs == Split(auth.tokens.access_token, 46) IN
    \/ Len(segs) # 3
    \/ ~HasNumericExp(segs[2])
    \/ ExpOf(segs[2]) - t <= 60

\* C17: refreshIfExpired on credentials that are not expired returns
\* refreshed = false and the very object it was given, no field changed, and
\* makes no call to the token endpoint.
C17_NotExpiredUntouched ==
    last.op = "refreshIfExpired" /\ ~ExpiredAt(input.auth, now) =>
        /\ last.result.status = "ok"
        /\ last.result.refreshed = FALSE
        /\ last.result.same
        /\ last.result.auth = input.auth
        /\ last.result.input = input.auth
        /\ io = << >>
        /\ last.result.sent = << >>

\* Credentials with every optional field, not yet expired, came back as
\* they were although the endpoint would have answered with new tokens.
C17_Witness ==
    /\ last.op = "refreshIfExpired"
    /\ input.auth = AuthFull
    /\ ~ExpiredAt(input.auth, now)
    /\ input.response.ok
    /\ last.result.same
    /\ io = << >>

\* The fields of credentials other than the three tokens and last_refresh:
\* auth_mode, OPENAI_API_KEY and tokens.account_id, each absent or its value.
NonTokenFields(auth) ==
    [top |-> [k \in (DOMAIN auth) \ {"tokens", "last_refresh"} |-> auth[k]],
     tokens |-> [k \in (DOMAIN auth.tokens) \ {"access_token", "refresh_token", "id_token"}
                   |-> auth.tokens[k]]]

\* C18: refreshIfExpired on expired credentials makes exactly one exchange
\* call, with the current refresh token; when it succeeds it returns
\* refreshed = true and new credentials whose access and id tokens are the
\* response's, whose refresh token is the response's if one was returned and
\* the prior one otherwise, and whose non-token fields equal the input's; the
\* input object is not mutated.
C18_ExpiredRefreshedOnce ==
    last.op = "refreshIfExpired" /\ ExpiredAt(input.auth, now) =>
        /\ io = <<"fetch">>
        /\ last.result.sent = <<input.auth.tokens.refresh_token>>
        /\ last.result.input = input.auth
        /\ last.result.status = "ok" =>
            /\ last.result.refreshed = TRUE
            /\ ~last.result.same
            /\ last.result.auth.tokens.access_token = input.response.body.access_token
            /\ last.result.auth.tokens.id_token = input.response.body.id_token
            /\ last.result.auth.tokens.refresh_token =
                 IF Has(input.response.body, "refresh_token")
                 THEN input.response.body.refresh_token
                 ELSE input.auth.tokens.refresh_token
            /\ NonTokenFields(last.result.auth) = NonTokenFields(input.auth)

\* Expired credentials with every optional field were refreshed by a
\* response that returned no refresh token: the prior one was kept.
C18_Witness ==
    /\ last.op = "refreshIfExpired"
    /\ input.auth = AuthFull
    /\ ExpiredAt(input.auth, now)
    /\ last.result.status = "ok"
    /\ last.result.refreshed
    /\ ~Has(input.response.body, "refresh_token")
    /\ last.result.auth.tokens.refresh_token = FakeToken(4)
    /\ last.result.auth.tokens.access_token = FreshAccess
    /\ last.result.auth.auth_mode = <<99>>

\* A 2xx answer carries no access token or no id token: its body is no JSON
\* object, or the object lacks one of them or holds it empty.
LacksToken(response) ==
    \/ response.json # "object"
    \/ Falsy(response.body, "access_token")
    \/ Falsy(response.body, "id_token")

\* C19: exchange issues exactly one request per call and never retries; on a
\* non-2xx response it fails with RefreshFailed carrying the HTTP status and
\* the body text, on a 2xx response lacking an access token or an id token
\* with RefreshResponseInvalid, on a network failure the original error
\* propagates unchanged, and only otherwise are the parsed tokens returned.
C19_ExchangeOutcomes ==
    last.op = "exchange" =>
        /\ io = <<"fetch">>
        /\ last.result.sent = <<input.auth.tokens.refresh_token>>
        /\ input.response.fails =>
            /\ last.result.status = "NetworkError"
            /\ last.result.detail = input.response.body
        /\ ~input.response.fails /\ ~input.response.ok =>
            /\ last.result.status = "RefreshFailed"
            /\ last.result.detail = [code |-> input.response.code,
                                     text |-> input.response.body.text]
        /\ ~input.response.fails /\ input.response.ok /\ LacksToken(input.response) =>
            last.result.status = "RefreshResponseInvalid"
        /\ last.result.status = "ok" <=>
            ~input.response.fails /\ input.response.ok /\ ~LacksToken(input.response)
        /\ last.result.status = "ok" => last.result.val = input.response.body

\* An exchange was answered 200 with the JSON body null.
C19_Reached ==
    /\ last.op = "exchange"
    /\ input.response.ok
    /\ input.response.json = "null"
    /\ last.result.status = "TypeError"

(***************************************************************************)
(* SpecProfileWrite: saveAccount and upsertAccount of one profile taken    *)
(* one I/O call at a time, writeFile being an open that truncates followed *)
(* by a write, while another process loads the profile or lists the        *)
(* directory (readdir, then readFile).                                     *)
(***************************************************************************)
\* "a": the profile written and read.
ProfileName == <<97>>

IdleProfileWriter ==
    [pc |-> "idle", op |-> "none", auth |-> AuthA, old |-> NoFile, status |-> "none"]

IdleLister == [pc |-> "idle", files |-> << >>]

InitProfileWrite ==
    /\ now = 0
    /\ acctDir = FALSE
    /\ afs = [p \in PathsOf({ProfileName}, {}) |-> NoFile]
    /\ last = NoOp
    /\ io = << >>
    /\ codexDir = "absent"
    /\ cfs = EmptyCodexFs
    /\ writer = IdleProfileWriter
    /\ reader = IdleLister
    /\ input = << >>

profileFrame == <<now, codexVars, io, input>>

\* saveAccount(name, auth) or upsertAccount(name, auth) is called; the name
\* is valid.
PStart ==
    /\ writer.pc \in {"idle", "returned"}
    /\ \E op \in {"save", "upsert"}, a \in AuthValues :
         writer' = [pc |-> "mkdir", op |-> op, auth |-> a, old |-> NoFile,
                    status |-> "running"]
    /\ UNCHANGED <<storeVars, last, reader, profileFrame>>

\* await ensureAccountsDir()
PMkdir ==
    /\ writer.pc = "mkdir"
    /\ acctDir' = TRUE
    /\ writer' = [writer EXCEPT !.pc = IF writer.op = "save" THEN "check" ELSE "open"]
    /\ UNCHANGED <<afs, last, reader, profileFrame>>

\* saveAccount: await readFile(path), which must fail with ENOENT.
PCheck ==
    /\ writer.pc = "check"
    /\ writer' = IF afs[accountPath(ProfileName)].exists
                 THEN [writer EXCEPT !.pc = "returned", !.status = "AlreadyExists"]
                 ELSE [writer EXCEPT !.pc = "open"]
    /\ UNCHANGED <<storeVars, last, reader, profileFrame>>

\* writeAccountFile: writeFile opens the path, truncating the file there.
POpen ==
    /\ writer.pc = "open"
    /\ afs' = OpenTrunc(afs, accountPath(ProfileName), PRIVATE_CREDENTIAL_FILE_MODE)
    /\ writer' = [writer EXCEPT !.pc = "write", !.old = afs[accountPath(ProfileName)]]
    /\ UNCHANGED <<acctDir, last, reader, profileFrame>>

\* writeAccountFile: writeFile writes JSON.stringify(metadata).
PWrite ==
    /\ writer.pc = "write"
    /\ afs' = WriteData(afs, accountPath(ProfileName),
                        JSONStringify(Metadata(ProfileName, now, writer.auth)))
    /\ writer' = [writer EXCEPT !.pc = "chmod"]
    /\ UNCHANGED <<acctDir, last, reader, profileFrame>>

\* writeAccountFile: await chmod(path, 0o600); the call returns.
PChmod ==
    /\ writer.pc = "chmod"
    /\ afs' = Chmod(afs, accountPath(ProfileName), PRIVATE_CREDENTIAL_FILE_MODE)
    /\ writer' = [writer EXCEPT !.pc = "returned", !.status = "ok"]
    /\ UNCHANGED <<acctDir, last, reader, profileFrame>>

\* What the other process observed, and the step the write was at.
Observed(op, r) ==
    [op |-> op, status |-> r.status, val |-> r.val, path |-> r.path, during |-> writer.pc]

\* Another process: loadAccount(name), a single readFile.
CLoad ==
    /\ reader.pc = "idle"
    /\ last' = Observed("load", loadAccount(acctDir, afs, ProfileName))
    /\ last' # last
    /\ UNCHANGED <<storeVars, writer, reader, profileFrame>>

\* Another process: listAccounts begins, ensureAccountsDir and readdir.
CReaddir ==
    /\ reader.pc = "idle"
    /\ acctDir' = TRUE
    /\ \E files \in Orders(Present(afs)) : reader' = [pc |-> "read", files |-> files]
    /\ UNCHANGED <<afs, last, writer, profileFrame>>

\* listAccounts reads the file readdir named and returns.
CRead ==
    /\ reader.pc = "read"
    /\ last' = Observed("list", listAccounts(acctDir, afs, NoToken, reader.files))
    /\ reader' = IdleLister
    /\ UNCHANGED <<storeVars, writer, profileFrame>>

NextProfileWrite ==
    \/ PStart
    \/ PMkdir
    \/ PCheck
    \/ POpen
    \/ PWrite
    \/ PChmod
    \/ CLoad
    \/ CReaddir
    \/ CRead

SpecProfileWrite == InitProfileWrite /\ [][NextProfileWrite]_vars

\* C20: a profile file is never observable partially written: a load or
\* list concurrent with a save or upsert of the profile sees no file, the
\* complete previous record or the complete new record, and never fails
\* with a malformed-profile error.
C20_NeverPartiallyWritten ==
    last.op \in {"load", "list"} =>
        /\ last.status # "MalformedProfile"
        /\ last.op = "load" =>
             \/ last.status = "null"
             \/ last.status = "ok" /\ IsProfileRecord(last.val)
        /\ last.op = "list" => last.status = "ok"

\* A load ran between the open and the write of an upsert that replaces a
\* complete record.
C20_Reached ==
    /\ last.op = "load"
    /\ last.during = "write"
    /\ writer.op = "upsert"
    /\ WellFormedProfile(writer.old)
    /\ last.status = "MalformedProfile"

(***************************************************************************)
(* SpecSwitch: switch, list and remove run one after another on a profile  *)
(* directory that holds saved profiles, whatever state ~/.codex is in, at  *)
(* some instant after the profiles were saved.                             *)
(***************************************************************************)
\* "a" and "B"
SwitchNames == {<<97>>, <<66>>}

\* No switch has succeeded since the last add, switch or remove; or the
\* switch to `name` has.
NoSwitch == [done |-> FALSE, name |-> << >>]
Switched(name) == [done |-> TRUE, name |-> name]

\* Profile "a" was saved at instant 0 with some credentials; profile "B"
\* may have been, with others.  ~/.codex is in any state and, when it is a
\* directory, may hold credentials.
InitSwitch ==
    /\ now \in {k * EXPIRY_GRACE_SECONDS : k \in 0..MaxNow}
    /\ acctDir = TRUE
    /\ \E a \in {AuthB, AuthFull, AuthBare}, withB \in BOOLEAN :
         LET empty == [p \in PathsOf(SwitchNames, {}) |-> NoFile]
             one == upsertAccount(TRUE, empty, <<97>>, a, 0).fs
         IN  afs = IF withB THEN upsertAccount(TRUE, one, <<66>>, AuthA, 0).fs ELSE one
    /\ codexDir \in CodexDirStates
    /\ cfs \in {EmptyCodexFs} \cup
               {WriteFile(EmptyCodexFs, AuthFile, JSONStringify(a), PRIVATE_CREDENTIAL_FILE_MODE) :
                  a \in IF codexDir = "dir" THEN {AuthA} ELSE {}}
    /\ last = NoOp
    /\ io = << >>
    /\ writer = IdleWriter
    /\ reader = NotSeen
    /\ input = NoSwitch

\* The effect of a command with result r, `out` the lines it logged.
SwitchCall(op, name, arg, r, out) ==
    /\ last' = [op |-> op, name |-> name, arg |-> arg, status |-> r.status,
                val |-> <<r.code>>, path |-> r.path, out |-> out]
    /\ io' = r.io
    /\ acctDir' = r.dir
    /\ afs' = r.fs
    /\ codexDir' = r.cdir
    /\ cfs' = r.cfs
    /\ UNCHANGED <<now, procVars>>

SwSwitch ==
    \E n \in SwitchNames, response \in TokenResponses :
        LET r == cmdSwitch(acctDir, afs, codexDir, cfs, n, response, "1", now) IN
        /\ SwitchCall("switch", n, response, r, << >>)
        /\ input' = IF r.code = 0 THEN Switched(n) ELSE NoSwitch

SwRemove ==
    \E n \in SwitchNames :
        /\ SwitchCall("cmdRemove", n, << >>, cmdRemove(acctDir, afs, codexDir, cfs, n), << >>)
        /\ input' = NoSwitch

SwList ==
    \E files \in Orders(Present(afs)) :
        /\ SwitchCall("cmdList", << >>, << >>, cmdList(acctDir, afs, codexDir, cfs, files),
                      cmdListLog(acctDir, afs, cfs, files))
        /\ UNCHANGED input

NextSwitch == SwSwitch \/ SwRemove \/ SwList

SpecSwitch == InitSwitch /\ [][NextSwitch]_vars

\* The credentials a profile file holds.
ProfileAuth(fs, name) == JSONParse(fs[accountPath(name)].data).val.auth

\* The position of the first call `c` among the calls made; 0 when absent.
FirstCall(calls, c) ==
    IF c \in Range(calls) THEN CHOOSE i \in 1..Len(calls) :
                                  calls[i] = c /\ \A j \in 1..(i - 1) : calls[j] # c
    ELSE 0

\* C21: a switch that exits 0 refreshed the saved credentials first if
\* their access token was expired, backed up the previous active credential
\* file, and left the active credential file holding exactly the (possibly
\* refreshed) credentials of the profile; after a refresh the profile holds
\* them too, so profile and active file are equal.
C21_SwitchInstallsProfile ==
    [][last'.op = "switch" /\ last'.val = <<0>> =>
        LET stored == ProfileAuth(afs, last'.name)
            active == JSONParse(cfs'[AuthFile].data).val
            body == last'.arg.body
        IN  /\ ExpiredAt(stored, now) =>
                 /\ FirstCall(io', "fetch") > 0
                 /\ FirstCall(io', "fetch") < FirstCall(io', "access")
                 /\ active.tokens.access_token = body.access_token
                 /\ active.tokens.id_token = body.id_token
                 /\ active.tokens.refresh_token =
                      IF Has(body, "refresh_token") THEN body.refresh_token
                      ELSE stored.tokens.refresh_token
                 /\ NonTokenFields(active) = NonTokenFields(stored)
            /\ ~ExpiredAt(stored, now) =>
                 /\ FirstCall(io', "fetch") = 0
                 /\ active = stored
                 /\ afs' = afs
            /\ cfs[AuthFile].exists =>
                 /\ cfs'[AuthBackup].exists
                 /\ cfs'[AuthBackup].data = cfs[AuthFile].data
            /\ cfs'[AuthFile].exists
            /\ JSONParse(cfs'[AuthFile].data).ok
            /\ ProfileAuth(afs', last'.name) = active
            /\ \A n \in SwitchNames \ {last'.name} :
                 afs'[accountPath(n)] = afs[accountPath(n)]]_vars

\* A switch to "a" refreshed expired credentials that carried every
\* optional field, over an active file that was backed up.
C21_Witness ==
    /\ last.op = "switch"
    /\ last.name = <<97>>
    /\ last.val = <<0>>
    /\ last.status = "refreshed"
    /\ cfs[AuthBackup].exists
    /\ ProfileAuth(afs, <<97>>).tokens.access_token = FreshAccess
    /\ Has(ProfileAuth(afs, <<97>>), "OPENAI_API_KEY")
    /\ JSONParse(cfs[AuthFile].data).val = ProfileAuth(afs, <<97>>)

\* C22: after a successful switch to a profile with no later add, switch
\* or remove, list marks that profile as active and marks no profile whose
\* stored access token differs from the active credential file's, whether
\* the switch refreshed the tokens or not.
C22_ListMarksSwitched ==
    last.op = "cmdList" /\ input.done =>
        /\ last.val = <<0>>
        /\ \E i \in 1..Len(last.out) :
             last.out[i].name = input.name /\ last.out[i].marker
        /\ \A i \in 1..Len(last.out) :
             last.out[i].marker =>
                 ProfileAuth(afs, last.out[i].name).tokens.access_token =
                     JSONParse(cfs[AuthFile].data).val.tokens.access_token

\* A list ran after a switch that refreshed with a response whose
\* refresh_token is the empty string.
C22_Reached ==
    /\ last.op = "cmdList"
    /\ input.done
    /\ ProfileAuth(afs, input.name).tokens.refresh_token = << >>
    /\ last.val = <<1>>
    /\ last.status = "MissingTokenFields"

\* The calls that write a file.
WriteCalls == {"writeFile", "copyFile", "rename", "chmod", "unlink", "mkdir"}

\* C23: a switch that fails because the profile does not exist or because
\* the refresh exchange fails exits 1 and leaves the active credential
\* file, its backup and every profile file unchanged: the refresh comes
\* before any write, and nothing is written for a missing profile.
C23_FailedSwitchChangesNothing ==
    [][last'.op = "switch" =>
        LET missing == ~afs[accountPath(last'.name)].exists
            exchangeFails ==
                /\ ~missing
                /\ ExpiredAt(ProfileAuth(afs, last'.name), now)
                /\ \/ last'.arg.fails
                   \/ ~last'.arg.ok
                   \/ LacksToken(last'.arg)
        IN  missing \/ exchangeFails =>
                /\ last'.val = <<1>>
                /\ cfs' = cfs
                /\ afs' = afs
                /\ Range(io') \cap WriteCalls = {}
                /\ missing => last'.status = "NotFound" /\ FirstCall(io', "fetch") = 0
                /\ exchangeFails =>
                     /\ FirstCall(io', "fetch") > 0
                     /\ last'.status \in {"NetworkError", "RefreshFailed",
                                          "RefreshResponseInvalid"}]_vars

\* A switch to a stored profile whose credentials were expired failed on a
\* 403 from the token endpoint, with active credentials in place.
C23_Witness ==
    /\ last.op = "switch"
    /\ last.status = "RefreshFailed"
    /\ last.val = <<1>>
    /\ afs[accountPath(last.name)].exists
    /\ cfs[AuthFile].exists
    /\ io = <<"readFile", "fetch">>

\* C24: whenever the refresh exchange succeeds during a switch, the
\* refreshed tokens, a rotated refresh token included, are stored in the
\* profile by the time the switch returns, whatever its exit code.
C24_RefreshedTokensStored ==
    [][/\ last'.op = "switch"
       /\ afs[accountPath(last'.name)].exists
       /\ ExpiredAt(ProfileAuth(afs, last'.name), now)
       /\ ~last'.arg.fails /\ last'.arg.ok /\ ~LacksToken(last'.arg)
       =>
       LET stored == ProfileAuth(afs', last'.name).tokens IN
       /\ stored.access_token = last'.arg.body.access_token
       /\ stored.id_token = last'.arg.body.id_token
       /\ stored.refresh_token =
            IF Has(last'.arg.body, "refresh_token") THEN last'.arg.body.refresh_token
            ELSE ProfileAuth(afs, last'.name).tokens.refresh_token]_vars

\* A switch exchanged the profile's refresh token for a new one and then
\* failed because ~/.codex is missing: the profile holds the old token.
C24_Reached ==
    /\ last.op = "switch"
    /\ last.val = <<1>>
    /\ last.status = "MissingCodexDir"
    /\ FirstCall(io, "fetch") > 0
    /\ Has(last.arg.body, "refresh_token")
    /\ last.arg.body.refresh_token = FakeToken(7)
    /\ ProfileAuth(afs, last.name).tokens.refresh_token # FakeToken(7)

(***************************************************************************)
(* SpecTwoSaves: two saveAccount calls for one name, absent at first, each *)
(* taken one I/O call at a time and interleaved with the other.            *)
(***************************************************************************)
Savers == {1, 2}

IdleSaver == [pc |-> "idle", auth |-> AuthA, status |-> "none"]

InitTwoSaves ==
    /\ now = 0
    /\ acctDir = FALSE
    /\ afs = [p \in PathsOf({ProfileName}, {}) |-> NoFile]
    /\ last = NoOp
    /\ io = << >>
    /\ codexDir = "absent"
    /\ cfs = EmptyCodexFs
    /\ writer = [p \in Savers |-> IdleSaver]
    /\ reader = NotSeen
    /\ input = << >>

saveFrame == <<now, codexVars, last, io, reader, input>>

\* Process p calls saveAccount(name, auth); the name is valid.
SStart(p) ==
    /\ writer[p].pc = "idle"
    /\ \E a \in AuthValues :
         writer' = [writer EXCEPT ![p] = [pc |-> "mkdir", auth |-> a, status |-> "running"]]
    /\ UNCHANGED <<storeVars, saveFrame>>

\* await ensureAccountsDir()
SMkdir(p) ==
    /\ writer[p].pc = "mkdir"
    /\ acctDir' = TRUE
    /\ writer' = [writer EXCEPT ![p].pc = "check"]
    /\ UNCHANGED <<afs, saveFrame>>

\* await readFile(path): the call fails with AlreadyExists unless readFile
\* fails with ENOENT.
SCheck(p) ==
    /\ writer[p].pc = "check"
    /\ writer' = IF afs[accountPath(ProfileName)].exists
                 THEN [writer EXCEPT ![p].pc = "returned", ![p].status = "AlreadyExists"]
                 ELSE [writer EXCEPT ![p].pc = "open"]
    /\ UNCHANGED <<storeVars, saveFrame>>

\* writeAccountFile: writeFile opens the path.
SOpen(p) ==
    /\ writer[p].pc = "open"
    /\ afs' = OpenTrunc(afs, accountPath(ProfileName), PRIVATE_CREDENTIAL_FILE_MODE)
    /\ writer' = [writer EXCEPT ![p].pc = "write"]
    /\ UNCHANGED <<acctDir, saveFrame>>

\* writeAccountFile: writeFile writes JSON.stringify(metadata).
SWrite(p) ==
    /\ writer[p].pc = "write"
    /\ afs' = WriteData(afs, accountPath(ProfileName),
                        JSONStringify(Metadata(ProfileName, now, writer[p].auth)))
    /\ writer' = [writer EXCEPT ![p].pc = "chmod"]
    /\ UNCHANGED <<acctDir, saveFrame>>

\* writeAccountFile: await chmod(path, 0o600); saveAccount returns.
SChmod(p) ==
    /\ writer[p].pc = "chmod"
    /\ afs' = Chmod(afs, accountPath(ProfileName), PRIVATE_CREDENTIAL_FILE_MODE)
    /\ writer' = [writer EXCEPT ![p].pc = "returned", ![p].status = "ok"]
    /\ UNCHANGED <<acctDir, saveFrame>>

NextTwoSaves ==
    \E p \in Savers :
        \/ SStart(p)
        \/ SMkdir(p)
        \/ SCheck(p)
        \/ SOpen(p)
        \/ SWrite(p)
        \/ SChmod(p)

SpecTwoSaves == InitTwoSaves /\ [][NextTwoSaves]_vars

\* C25: of two concurrent save calls for one name, absent at first, at most
\* one succeeds and the other fails with AlreadyExists; the profile file
\* finally holds the credentials of the call that succeeded.
C25_OneSaveWins ==
    (\A p \in Savers : writer[p].pc = "returned") =>
        \E p \in Savers :
            /\ writer[p].status = "ok"
            /\ \A q \in Savers \ {p} : writer[q].status = "AlreadyExists"
            /\ ProfileAuth(afs, ProfileName) = writer[p].auth

\* Both calls returned success with different credentials; the file holds
\* those of the second.
C25_Reached ==
    /\ \A p \in Savers : writer[p].pc = "returned" /\ writer[p].status = "ok"
    /\ writer[1].auth # writer[2].auth
    /\ ProfileAuth(afs, ProfileName) = writer[2].auth

====
